---- MODULE Spec2Model ----
(***************************************************************************)
(* Tasks API (src/app.py): five request handlers over one MongoDB          *)
(* collection, request bodies validated by the pydantic models TaskModel   *)
(* and UpdateTaskModel, responses validated against the route's            *)
(* response_model.                                                         *)
(*                                                                         *)
(* A text string is a sequence of characters.  A JSON body is a function   *)
(* from the keys it carries to one-element tuples <<v>>, or to <<>> for an *)
(* explicit null.  A stored document is a function from its keys to        *)
(* values; its "_id" is a native ObjectId, never a string.                 *)
(***************************************************************************)
EXTENDS Integers, Sequences, FiniteSets, TLC

\* How many documents are ever inserted (ObjectIds ever generated).
MaxTasks == 2

\* ------------------------------------------------------------ constants

MinTitleLen == 3
MaxTitleLen == 100
MinDescriptionLen == 3
MaxDescriptionLen == 500
DefaultPriority == 10
\* min = 1, max = 10 are declared on `priority`, but are not pydantic
\* constraint keywords (those are ge/le): pydantic keeps them as schema
\* extras and enforces nothing.
MinPriority == 1
MaxPriority == 10
ListLimit == 1000

StatusEnum == {"done", "undone", "progress"}

\* ------------------------------------------------------------ values

\* A text of n characters.
Str(n) == [i \in 1..n |-> "x"]

DefaultDescription == Str(0)

\* bson.ObjectId values, and the strings that travel in URLs and bodies.
\* hex = n > 0 stands for the 24-hex-digit text of the n-th generated id,
\* hex = 0 for a text that is not 24 hex digits.
MkObjectId(n) == [type |-> "ObjectId", hex |-> n]

HexStr(n) == [type |-> "str", hex |-> n]

BadIdStr == [type |-> "str", hex |-> 0]

NoId == [type |-> "none", hex |-> 0]

\* bson.ObjectId.is_valid: ObjectId(s) raises InvalidId otherwise.
IsValidObjectIdStr(s) == s.type = "str" /\ s.hex > 0

\* ObjectId(s) for a valid s.
ObjectId(s) == MkObjectId(s.hex)

\* str(oid), the BeforeValidator of PyObjectId.
PyObjectId(v) == IF v.type = "ObjectId" THEN HexStr(v.hex) ELSE v

EmptyBody == [k \in {} |-> <<>>]

TaskKeys == {"title", "description", "priority", "status"}

Has(body, k) == k \in DOMAIN body

\* ------------------------------------------------------------ schema

TitleOk(t) == Len(t) >= MinTitleLen /\ Len(t) <= MaxTitleLen

DescriptionOk(d) == Len(d) >= MinDescriptionLen /\ Len(d) <= MaxDescriptionLen

\* priority: int; the declared min/max are not enforced.
PriorityOk(p) == p \in Int

StatusOk(s) == s \in StatusEnum

\* TaskModel as it would validate had title no min_length.
ValidTaskModelNoMinLength(body) ==
    /\ Has(body, "title") /\ body["title"] # <<>>
    /\ Len(body["title"][1]) <= MaxTitleLen
    /\ Has(body, "description") =>
          body["description"] # <<>> /\ DescriptionOk(body["description"][1])
    /\ Has(body, "priority") =>
          body["priority"] # <<>> /\ PriorityOk(body["priority"][1])
    /\ Has(body, "status") /\ body["status"] # <<>> /\ StatusOk(body["status"][1])

\* TaskModel validation of a request body: title and status are required,
\* no field accepts null except the Optional id; defaults are not validated.
ValidTaskModel(body) ==
    /\ Has(body, "title") /\ body["title"] # <<>> /\ TitleOk(body["title"][1])
    /\ Has(body, "description") =>
          body["description"] # <<>> /\ DescriptionOk(body["description"][1])
    /\ Has(body, "priority") =>
          body["priority"] # <<>> /\ PriorityOk(body["priority"][1])
    /\ Has(body, "status") /\ body["status"] # <<>> /\ StatusOk(body["status"][1])

\* UpdateTaskModel validation: every field Optional, constraints apply to
\* the values that are present and not null.
ValidUpdateTaskModel(body) ==
    /\ (Has(body, "title") /\ body["title"] # <<>>) => TitleOk(body["title"][1])
    /\ (Has(body, "description") /\ body["description"] # <<>>) =>
          DescriptionOk(body["description"][1])
    /\ (Has(body, "priority") /\ body["priority"] # <<>>) =>
          PriorityOk(body["priority"][1])
    /\ (Has(body, "status") /\ body["status"] # <<>>) => StatusOk(body["status"][1])

\* task.model_dump(by_alias=True, exclude=["id"]): the four task fields,
\* defaults filled in, the id dropped.
DumpTask(body) ==
    [k \in TaskKeys |->
        IF Has(body, k) THEN body[k][1]
        ELSE IF k = "description" THEN DefaultDescription
        ELSE DefaultPriority]

\* {k: v for k, v in task.model_dump(by_alias=True).items() if v is not None}
DumpUpdate(body) ==
    [k \in {j \in DOMAIN body : body[j] # <<>>} |->
        IF k = "_id" THEN PyObjectId(body[k][1]) ELSE body[k][1]]

\* Validation of a returned document against response_model (TaskModel or
\* UpdateTaskModel: on a document that carries every field the two agree).
ResponseOk(doc) ==
    /\ TitleOk(doc["title"])
    /\ DescriptionOk(doc["description"])
    /\ PriorityOk(doc["priority"])
    /\ StatusOk(doc["status"])

\* The serialised record, response_model_by_alias=False: "_id" leaves as
\* the string "id".
Record(doc) ==
    [k \in {"id"} \cup TaskKeys |->
        IF k = "id" THEN PyObjectId(doc["_id"]) ELSE doc[k]]

\* ------------------------------------------------------------ store

\* The document insert_one stores: the dumped task under a new ObjectId.
MkDoc(oid, task) ==
    [k \in {"_id"} \cup TaskKeys |-> IF k = "_id" THEN oid ELSE task[k]]

\* insert_one(doc): the driver generates the next ObjectId.
InsertOne(c, n, task) == c \cup {MkDoc(MkObjectId(n), task)}

\* find_one({"_id": v}): the documents (none or one) whose _id equals v.
\* A string never equals an ObjectId.
FindOne(c, v) == {d \in c : d["_id"] = v}

\* find().to_list(limit): up to limit documents.
FindToList(c, limit) ==
    {ret \in SUBSET c :
        Cardinality(ret) = IF Cardinality(c) <= limit THEN Cardinality(c) ELSE limit}

\* {"$set": task} on one document.
ApplySet(doc, task) ==
    [k \in DOMAIN doc |-> IF k \in DOMAIN task THEN task[k] ELSE doc[k]]

\* The server refuses a $set that would change the immutable _id
\* (error 66, raised by the driver as OperationFailure).
SetFaults(doc, task) == "_id" \in DOMAIN task /\ task["_id"] # doc["_id"]

\* find_one_and_update as it would act with upsert=True: a miss inserts.
FindOneAndUpdateUpsert(c, oid, task) ==
    LET hit == FindOne(c, oid) IN
    IF hit = {}
    THEN LET new == ApplySet(MkDoc(oid, [k \in TaskKeys |->
                        IF k = "title" THEN Str(MinTitleLen)
                        ELSE IF k = "description" THEN DefaultDescription
                        ELSE IF k = "priority" THEN DefaultPriority
                        ELSE "undone"]), task) IN
         [coll |-> c \cup {new}, found |-> {new}, fault |-> FALSE]
    ELSE LET d == CHOOSE x \in hit : TRUE IN
         IF SetFaults(d, task) THEN [coll |-> c, found |-> {}, fault |-> TRUE]
         ELSE [coll |-> (c \ {d}) \cup {ApplySet(d, task)},
               found |-> {ApplySet(d, task)}, fault |-> FALSE]

\* find_one_and_update as it would act with a replacement document built
\* from the request instead of a $set: fields the request omits fall back
\* to their defaults.
FindOneAndReplace(c, oid, task) ==
    LET hit == FindOne(c, oid) IN
    IF hit = {} THEN [coll |-> c, found |-> {}, fault |-> FALSE]
    ELSE LET d == CHOOSE x \in hit : TRUE
             new == [k \in DOMAIN d |->
                        IF k \in DOMAIN task THEN task[k]
                        ELSE IF k = "description" THEN DefaultDescription
                        ELSE IF k = "priority" THEN DefaultPriority
                        ELSE d[k]] IN
         IF SetFaults(d, task) THEN [coll |-> c, found |-> {}, fault |-> TRUE]
         ELSE [coll |-> (c \ {d}) \cup {new}, found |-> {new}, fault |-> FALSE]

\* find_one_and_update({"_id": oid}, {"$set": task}, ReturnDocument.AFTER),
\* one atomic store operation, no upsert.
FindOneAndUpdate(c, oid, task) ==
    LET hit == FindOne(c, oid) IN
    IF hit = {} THEN [coll |-> c, found |-> {}, fault |-> FALSE]
    ELSE LET d == CHOOSE x \in hit : TRUE IN
         IF SetFaults(d, task) THEN [coll |-> c, found |-> {}, fault |-> TRUE]
         ELSE [coll |-> (c \ {d}) \cup {ApplySet(d, task)},
               found |-> {ApplySet(d, task)}, fault |-> FALSE]

\* delete_one as it would act if it only marked the document: the count
\* is reported, the document stays.
DeleteOneKeeps(c, oid) ==
    [coll |-> c, deleted_count |-> Cardinality(FindOne(c, oid))]

\* delete_one({"_id": oid}).
DeleteOne(c, oid) ==
    [coll |-> c \ FindOne(c, oid), deleted_count |-> Cardinality(FindOne(c, oid))]

\* ------------------------------------------------------------ handlers

\* What a handler leaves behind: the collection, the HTTP status and the
\* records of the response body.
Reply(c, status, body) == [coll |-> c, status |-> status, body |-> body]

\* Returning a document through response_model: a document that fails the
\* model's validation is a ResponseValidationError, a 500.
Returned(c, doc, ok) ==
    IF ResponseOk(doc) THEN Reply(c, ok, {Record(doc)}) ELSE Reply(c, 500, {})

\* show_task
ShowTaskReply(c, id) ==
    IF ~IsValidObjectIdStr(id) THEN Reply(c, 500, {})
    ELSE LET hit == FindOne(c, ObjectId(id)) IN
         IF hit # {} THEN Returned(c, CHOOSE d \in hit : TRUE, 200)
         ELSE Reply(c, 404, {})

\* update_task
UpdateTaskReply(c, id, body) ==
    IF ~ValidUpdateTaskModel(body) THEN Reply(c, 422, {})
    ELSE LET task == DumpUpdate(body) IN
         IF Cardinality(DOMAIN task) >= 1
         THEN IF ~IsValidObjectIdStr(id) THEN Reply(c, 500, {})
              ELSE LET r == FindOneAndUpdate(c, ObjectId(id), task) IN
                   IF r.fault THEN Reply(c, 500, {})
                   ELSE IF r.found # {}
                        THEN Returned(r.coll, CHOOSE d \in r.found : TRUE, 200)
                        ELSE Reply(r.coll, 404, {})
         ELSE LET hit == FindOne(c, id) IN
              IF hit # {} THEN Returned(c, CHOOSE d \in hit : TRUE, 200)
              ELSE Reply(c, 404, {})

\* delete_task
DeleteTaskReply(c, id) ==
    IF ~IsValidObjectIdStr(id) THEN Reply(c, 500, {})
    ELSE LET r == DeleteOne(c, ObjectId(id)) IN
         IF r.deleted_count = 1 THEN Reply(r.coll, 204, {})
         ELSE Reply(r.coll, 404, {})

\* list_tasks: TaskCollection(tasks=...) validates every document inside
\* the handler; a failure there is an unhandled exception.
ListTasksReply(c, ret) ==
    IF \A d \in ret : ResponseOk(d) THEN Reply(c, 200, {Record(d) : d \in ret})
    ELSE Reply(c, 500, {})

\* create_task, second await: read the inserted document back.
CreateTaskReply(c, oid) ==
    LET hit == FindOne(c, oid) IN
    IF hit # {} THEN Returned(c, CHOOSE d \in hit : TRUE, 201)
    ELSE Reply(c, 500, {})

\* ------------------------------------------------------------ inputs

\* A JSON body from the choice made for each key: {} leaves the key out,
\* {<<v>>} carries v, {<<>>} carries null.
MkBody(ch) ==
    [k \in {j \in DOMAIN ch : ch[j] # {}} |-> CHOOSE x \in ch[k] : TRUE]

TooShortTitle == Str(MinTitleLen - 1)

TooLongTitle == Str(MaxTitleLen + 1)

GoodTitle == Str(MinTitleLen)

GoodDescription == Str(MinDescriptionLen)

OutOfRangePriority == MaxPriority + 1

\* POST bodies: every combination of an omitted or good description and an
\* omitted or out-of-range priority under a good title and status; and
\* seven more shapes.
CreateBodies ==
    {MkBody([title |-> {<<GoodTitle>>}, description |-> d, priority |-> p,
             status |-> {<<"undone">>}]) :
        d \in {{}, {<<GoodDescription>>}},
        p \in {{}, {<<OutOfRangePriority>>}}}
    \cup
    {MkBody([title |-> {<<TooShortTitle>>}, status |-> {<<"undone">>}]),
     MkBody([title |-> {<<TooLongTitle>>}, status |-> {<<"undone">>}]),
     MkBody([title |-> {<<>>}, status |-> {<<"undone">>}]),
     MkBody([title |-> {<<GoodTitle>>}, status |-> {<<"bogus">>}]),
     MkBody([title |-> {<<GoodTitle>>}]),
     MkBody([title |-> {<<GoodTitle>>}, description |-> {<<Str(0)>>},
             status |-> {<<"undone">>}]),
     MkBody([_id |-> {<<HexStr(1)>>}, title |-> {<<GoodTitle>>},
             description |-> {<<GoodDescription>>}, status |-> {<<"undone">>}])}

\* PUT bodies: every combination of an omitted or good description and an
\* omitted or out-of-range priority (the empty body among them); and six
\* more shapes.
UpdateBodies ==
    {MkBody([description |-> d, priority |-> p]) :
        d \in {{}, {<<GoodDescription>>}},
        p \in {{}, {<<OutOfRangePriority>>}}}
    \cup
    {MkBody([title |-> {<<>>}, status |-> {<<>>}]),
     MkBody([title |-> {<<TooShortTitle>>}]),
     MkBody([status |-> {<<"bogus">>}]),
     MkBody([status |-> {<<"undone">>}]),
     MkBody([_id |-> {<<HexStr(1)>>}]),
     MkBody([_id |-> {<<HexStr(1)>>}, description |-> {<<GoodDescription>>}])}

\* Path ids: the text of every id the store can generate, and a text that
\* is no ObjectId.
PathIds == {HexStr(n) : n \in 1..MaxTasks} \cup {BadIdStr}

\* ------------------------------------------------------------ state

VARIABLES
    coll,       \* task_collection: the set of stored documents
    nextOid,    \* the ObjectId the driver generates next
    creating,   \* the create_task request between its two awaits
    resp,       \* the response the last step sent, with its request
    inflight,   \* the update_task requests received and not yet answered
    orig        \* the collection before any of them was received

vars == <<coll, nextOid, creating, resp, inflight, orig>>

\* The clients that send update_task requests side by side.
Procs == {"A", "B"}

NotSent == [pc |-> "idle", id |-> NoId, req |-> EmptyBody, overlapped |-> FALSE]

NotCreating == [pc |-> "idle", req |-> EmptyBody, oid |-> NoId]

NoResp == [op |-> "none", id |-> NoId, req |-> EmptyBody, status |-> 0, body |-> {}]

Resp(op, id, req, r) ==
    [op |-> op, id |-> id, req |-> req, status |-> r.status, body |-> r.body]

Init ==
    /\ coll = {}
    /\ nextOid = 1
    /\ creating = NotCreating
    /\ resp = NoResp
    /\ inflight = [p \in Procs |-> NotSent]
    /\ orig = coll

\* create_task with a body TaskModel rejects: 422, the handler never runs.
CreateTaskRejected(body) ==
    /\ ~ValidTaskModel(body)
    /\ resp' = Resp("create", NoId, body, Reply(coll, 422, {}))
    /\ UNCHANGED <<coll, nextOid, creating, inflight, orig>>

\* create_task up to its first await: insert_one.
CreateTaskInsert(body) ==
    /\ creating.pc = "idle"
    /\ nextOid <= MaxTasks
    /\ ValidTaskModel(body)
    /\ coll' = InsertOne(coll, nextOid, DumpTask(body))
    /\ nextOid' = nextOid + 1
    /\ creating' = [pc |-> "find", req |-> body, oid |-> MkObjectId(nextOid)]
    /\ resp' = NoResp
    /\ UNCHANGED <<inflight, orig>>

\* create_task from its second await: find_one, then the response.
CreateTaskFind ==
    /\ creating.pc = "find"
    /\ resp' = Resp("create", NoId, creating.req, CreateTaskReply(coll, creating.oid))
    /\ creating' = NotCreating
    /\ UNCHANGED <<coll, nextOid, inflight, orig>>

ListTasks ==
    /\ \E ret \in FindToList(coll, ListLimit) :
          resp' = Resp("list", NoId, EmptyBody, ListTasksReply(coll, ret))
    /\ UNCHANGED <<coll, nextOid, creating, inflight, orig>>

ShowTask(id) ==
    /\ resp' = Resp("get", id, EmptyBody, ShowTaskReply(coll, id))
    /\ UNCHANGED <<coll, nextOid, creating, inflight, orig>>

UpdateTask(id, body) ==
    LET r == UpdateTaskReply(coll, id, body) IN
    /\ coll' = r.coll
    /\ resp' = Resp("update", id, body, r)
    /\ UNCHANGED <<nextOid, creating, inflight, orig>>

DeleteTask(id) ==
    LET r == DeleteTaskReply(coll, id) IN
    /\ coll' = r.coll
    /\ resp' = Resp("delete", id, EmptyBody, r)
    /\ UNCHANGED <<nextOid, creating, inflight, orig>>

Next ==
    \/ \E body \in CreateBodies : CreateTaskRejected(body)
    \/ \E body \in CreateBodies : CreateTaskInsert(body)
    \/ CreateTaskFind
    \/ ListTasks
    \/ \E id \in PathIds : ShowTask(id)
    \/ \E id \in PathIds, body \in UpdateBodies : UpdateTask(id, body)
    \/ \E id \in PathIds : DeleteTask(id)

Spec == Init /\ [][Next]_vars

\* ------------------------------------------------- concurrent updates

\* Two update_task requests side by side, on a collection that holds the
\* document of one completed create_task.  A handler runs without
\* interruption up to its await, so a request is its receipt (the body
\* validated, the handler scheduled) and then its one store operation with
\* the response that follows from it; the store serialises the operations.
InitConc ==
    /\ coll \in {InsertOne({}, 1, DumpTask(body)) :
                    body \in {b \in CreateBodies : ValidTaskModel(b)}}
    /\ nextOid = 2
    /\ creating = NotCreating
    /\ resp = NoResp
    /\ inflight = [p \in Procs |-> NotSent]
    /\ orig = coll

\* update_task received: the body passed UpdateTaskModel.
UpdateTaskSend(p, id, body) ==
    /\ inflight[p].pc = "idle"
    /\ ValidUpdateTaskModel(body)
    /\ inflight' =
          [q \in Procs |->
              IF q = p
              THEN [pc |-> "sent", id |-> id, req |-> body,
                    overlapped |-> \E o \in Procs \ {p} : inflight[o].pc = "sent"]
              ELSE IF inflight[q].pc = "sent"
                   THEN [inflight[q] EXCEPT !.overlapped = TRUE]
                   ELSE inflight[q]]
    /\ UNCHANGED <<coll, nextOid, creating, resp, orig>>

\* update_task's store operation and response.
UpdateTaskStore(p) ==
    /\ inflight[p].pc = "sent"
    /\ LET r == UpdateTaskReply(coll, inflight[p].id, inflight[p].req) IN
          /\ coll' = r.coll
          /\ resp' = Resp("update", inflight[p].id, inflight[p].req, r)
    /\ inflight' = [inflight EXCEPT ![p].pc = "done"]
    /\ UNCHANGED <<nextOid, creating, orig>>

NextConc ==
    \/ \E p \in Procs, id \in PathIds, body \in UpdateBodies :
          UpdateTaskSend(p, id, body)
    \/ \E p \in Procs : UpdateTaskStore(p)

SpecConc == InitConc /\ [][NextConc]_vars

\* ------------------------------------------------------------ claims

\* The keys a body carries with a value other than null.
EffectiveFields(body) == {k \in DOMAIN body : body[k] # <<>>}

\* The path id is the text of an ObjectId and a document has that _id.
HasRecord(c, id) == IsValidObjectIdStr(id) /\ FindOne(c, ObjectId(id)) # {}

RecordOf(c, id) == CHOOSE d \in FindOne(c, ObjectId(id)) : TRUE

\* The document with the task fields of a body written over it.
WithFields(doc, body) ==
    [k \in DOMAIN doc |->
        IF k \in EffectiveFields(body) \cap TaskKeys THEN body[k][1] ELSE doc[k]]

\* A body breaks a length or enum constraint of the schema.
BreaksConstraint(body) ==
    \/ /\ "title" \in EffectiveFields(body)
       /\ Len(body["title"][1]) \notin MinTitleLen..MaxTitleLen
    \/ /\ "description" \in EffectiveFields(body)
       /\ Len(body["description"][1]) \notin MinDescriptionLen..MaxDescriptionLen
    \/ /\ "status" \in EffectiveFields(body)
       /\ body["status"][1] \notin {"done", "undone", "progress"}

\* A create body misses a required field or carries null for a field.
MissesRequired(body) ==
    \/ {"title", "status"} \ EffectiveFields(body) # {}
    \/ \E k \in DOMAIN body \cap TaskKeys : body[k] = <<>>

\* C1: an update whose body has no effective field answers 200 with the
\* unchanged record when the id has a record and 404 when it has none,
\* and writes nothing.
C1_EmptyUpdateReturnsRecord ==
    [][(resp'.op = "update" /\ EffectiveFields(resp'.req) = {}) =>
          /\ coll' = coll
          /\ IF HasRecord(coll, resp'.id)
             THEN /\ resp'.status = 200
                  /\ resp'.body = {Record(RecordOf(coll, resp'.id))}
             ELSE resp'.status = 404]_vars

\* C2: get, update and delete on an id that is no valid store identifier
\* answer with a 4xx status, never a 5xx, and leave the collection alone.
C2_InvalidIdIsClientError ==
    [][(resp'.op \in {"get", "update", "delete"}
          /\ ~IsValidObjectIdStr(resp'.id)) =>
          /\ resp'.status \in 400..499
          /\ coll' = coll]_vars

\* C3: a create whose body passes the full schema answers 201 with a
\* record of non-empty id, and a get of that id right after answers 200
\* with the identical record.
C3_CreateThenGet ==
    [][(resp'.op = "create" /\ ValidTaskModel(resp'.req)) =>
          /\ resp'.status = 201
          /\ \E r \in resp'.body :
                /\ IsValidObjectIdStr(r.id)
                /\ ShowTaskReply(coll', r.id) = Reply(coll', 200, {r})]_vars

\* C4: every stored document has a title of 3..100 characters, a priority
\* in 1..10, a status of the enum, and a description that is empty or of
\* 3..500 characters.
C4_StoredFieldsInRange ==
    \A d \in coll :
        /\ Len(d["title"]) \in MinTitleLen..MaxTitleLen
        /\ d["priority"] \in MinPriority..MaxPriority
        /\ d["status"] \in StatusEnum
        /\ \/ d["description"] = DefaultDescription
           \/ Len(d["description"]) \in MinDescriptionLen..MaxDescriptionLen

\* C5: an update of an existing id with at least one non-null field sets
\* exactly those fields, leaves the rest of the record, its id and every
\* other record alone, and answers 200 with the record after the update.
C5_UpdateSetsSuppliedFields ==
    [][(resp'.op = "update" /\ HasRecord(coll, resp'.id)
          /\ ValidUpdateTaskModel(resp'.req)
          /\ EffectiveFields(resp'.req) # {}) =>
          LET d == RecordOf(coll, resp'.id) IN
          /\ coll' = (coll \ {d}) \cup {WithFields(d, resp'.req)}
          /\ resp'.status = 200
          /\ resp'.body = {Record(WithFields(d, resp'.req))}]_vars

\* An id the store generated and whose document is no longer there.
Gone(c, n, k) == k < n /\ FindOne(c, MkObjectId(k)) = {}

\* C6: a delete answers 204 exactly when it removes the record; from then
\* on the record stays absent, no operation brings the id back, and every
\* later delete, get or update (of a body that passes the schema) of the
\* id answers 404.
C6_DeletedStaysDeleted ==
    [][\A k \in 1..MaxTasks :
          /\ (resp'.op = "delete" /\ resp'.id = HexStr(k) /\ resp'.status = 204)
                <=> (~Gone(coll, nextOid, k) /\ Gone(coll', nextOid', k))
          /\ Gone(coll, nextOid, k) =>
                /\ Gone(coll', nextOid', k)
                /\ (resp'.id = HexStr(k)
                      /\ \/ resp'.op \in {"get", "delete"}
                         \/ resp'.op = "update" /\ ValidUpdateTaskModel(resp'.req))
                      => resp'.status = 404]_vars

\* A second delete of the first id answered 404, after a later create
\* took another id.
C6_Witness ==
    /\ resp.op = "delete" /\ resp.id = HexStr(1) /\ resp.status = 404
    /\ Gone(coll, nextOid, 1)
    /\ FindOne(coll, MkObjectId(2)) # {}

C8_MissingIdIs404 ==
    [][(/\ resp'.id # NoId
        /\ IsValidObjectIdStr(resp'.id)
        /\ ~HasRecord(coll, resp'.id)
        /\ \/ resp'.op \in {"get", "delete"}
           \/ resp'.op = "update" /\ ValidUpdateTaskModel(resp'.req)) =>
          /\ resp'.status = 404
          /\ coll' = coll]_vars

\* An update with a field to set was answered 404 for an id without a
\* record, while the collection held another document.
C8_Witness ==
    /\ resp.op = "update" /\ resp.status = 404
    /\ EffectiveFields(resp.req) \cap TaskKeys # {}
    /\ IsValidObjectIdStr(resp.id) /\ ~HasRecord(coll, resp.id)
    /\ coll # {}

\* C9: when two updates of non-empty, disjoint sets of task fields on the
\* same existing record have both completed, in either order, the record
\* holds the values of both and every other field is as it was.
C9_DisjointUpdatesBothKept ==
    \A p \in Procs : \A q \in Procs \ {p} :
        LET a == inflight[p]
            b == inflight[q] IN
        (/\ a.pc = "done" /\ b.pc = "done"
         /\ a.id = b.id /\ HasRecord(orig, a.id)
         /\ EffectiveFields(a.req) # {} /\ EffectiveFields(b.req) # {}
         /\ EffectiveFields(a.req) \subseteq TaskKeys
         /\ EffectiveFields(b.req) \subseteq TaskKeys
         /\ EffectiveFields(a.req) \cap EffectiveFields(b.req) = {}) =>
            /\ HasRecord(coll, a.id)
            /\ RecordOf(coll, a.id) =
                  WithFields(WithFields(RecordOf(orig, a.id), a.req), b.req)

\* Both requests were in flight together; one set the description, the
\* other the priority, and the record shows both new values.
C9_Witness ==
    /\ inflight["A"].pc = "done" /\ inflight["B"].pc = "done"
    /\ inflight["A"].overlapped /\ inflight["B"].overlapped
    /\ inflight["A"].id = HexStr(1) /\ inflight["B"].id = HexStr(1)
    /\ EffectiveFields(inflight["A"].req) = {"description"}
    /\ EffectiveFields(inflight["B"].req) = {"priority"}
    /\ RecordOf(orig, HexStr(1))["description"] = DefaultDescription
    /\ RecordOf(orig, HexStr(1))["priority"] = DefaultPriority
    /\ RecordOf(coll, HexStr(1))["description"] = GoodDescription
    /\ RecordOf(coll, HexStr(1))["priority"] = OutOfRangePriority

\* C10: a create with a valid body answers 201 with exactly the record it
\* inserted, whatever runs between its insert and its read-back.  Stated
\* for the bodies that carry a description, whose inserted document passes
\* the response model.
C10_CreateReturnsInserted ==
    [][(resp'.op = "create" /\ ValidTaskModel(resp'.req)
          /\ "description" \in EffectiveFields(resp'.req)) =>
          /\ resp'.status = 201
          /\ \E r \in resp'.body :
                /\ IsValidObjectIdStr(r.id)
                /\ resp'.body = {Record(MkDoc(ObjectId(r.id), DumpTask(resp'.req)))}]_vars

====
